---- MODULE Spec2Model ----
(***************************************************************************)
(* Client-side state machines of the document Q&A application:             *)
(*   - the chat session hook useWebSocket together with the               *)
(*     WebSocketClient it drives and the ChatInterface component in front  *)
(*     of it (specifications SpecChat and SpecChatUI);                     *)
(*   - the document list hook useDocuments with its status polling         *)
(*     (specification SpecDocs).                                           *)
(*                                                                         *)
(* React state is modelled the way React runs it.  A state setter called   *)
(* while the component has no pending update computes the new state at     *)
(* once; a setter called while an update is pending is queued and its      *)
(* updater function runs at the next render.  An updater that reads        *)
(* currentMessageId.current therefore reads the value the ref has when the *)
(* updater RUNS.  With a legacy root (ReactDOM.render) updates made in a   *)
(* WebSocket callback are applied synchronously, one by one; with a        *)
(* concurrent root (createRoot) they are batched.  The root API is not     *)
(* part of the sources, so legacyRoot is chosen in Init.                   *)
(***************************************************************************)
EXTENDS Integers, Sequences, FiniteSets, TLC

NULL == "null"     \* null / undefined of a string-valued field
NoDoc == 0         \* documentId null (0 is falsy as well)
NoSession == 0     \* currentSessionId null (0 is falsy as well)
NoId == <<>>       \* currentMessageId.current null

\* ----------------------------------------------------------------- bounds
MaxNow == 1        \* Date.now() returns the values 0..MaxNow
MaxSent == 2       \* frames the client sends over all sockets
MaxContent == 2    \* answer chunks received during one turn
MaxQueue == 2      \* updaters queued between two renders
MaxSocks == 2      \* WebSocket objects ever created
MaxClients == 1    \* WebSocketClient objects ever created

\* ----------------------------------------------------------------- inputs
Docs == {1}
SessionIds == {7}
\* The answer of a turn is streamed as the chunks <<1>>, <<2>>, ...
ChunkTexts == {<<i>> : i \in 1..MaxContent}
ContextPayloads == {"ctx1"}
InputTexts == {<<" ", "q">>, <<" ">>}

VARIABLES
  legacyRoot,        \* TRUE: ReactDOM.render root, FALSE: createRoot root
  now,               \* the value Date.now() returned last, -1: not called yet
  documentId,        \* argument of useWebSocket
  isConnected,       \* useState, latest value set
  messages,          \* useState, value after the updates already computed
  isLoading,         \* useState, latest value set
  currentSessionId,  \* useState, latest value set
  wsClient,          \* useRef: index into clients, 0 = null
  currentMessageId,  \* useRef
  dirty,             \* the component has an update pending (fiber.lanes # 0)
  msgQueue,          \* setMessages updaters waiting for the next render
  rendered,          \* state values of the last render (what closures see)
  clients,           \* WebSocketClient objects: ws, reconnectAttempts, timers
  socks,             \* WebSocket objects: owning client, readyState
  sent,              \* frames written with ws.send, in order
  streamPos          \* answer chunks delivered since the last frame was sent

chatVars == <<legacyRoot, now, documentId, isConnected, messages, isLoading,
              currentSessionId, wsClient, currentMessageId, dirty, msgQueue,
              rendered, clients, socks, sent, streamPos>>

VARIABLES
  srvDocs,     \* server: the status record of document id i at position i
  uploads,     \* upload requests in flight: file and, once created, the id
  documents,   \* useState of useDocuments
  pollers,     \* pollDocumentStatus calls: document, interval, timeout
  reqs,        \* getStatus requests in flight, in the order they were issued
  fetches      \* documentAPI.list requests in flight, with the answer once served

docsVars == <<srvDocs, uploads, documents, pollers, reqs, fetches>>

VARIABLES
  selectedDocument,  \* useState of App: the Document selected, NoDocument = null
  activeTab,         \* useState of App
  uploadUI,          \* useState cells of DocumentUpload
  alertShown,        \* the last message given to alert() by DocumentUpload
  deletes,           \* delete requests in flight, with the handleDelete closure
  listUI             \* useState of DocumentList and its pending timers

appVars == <<selectedDocument, activeTab, uploadUI, alertShown, deletes, listUI>>

VARIABLES
  index,       \* server: the VectorRecords visible in the index, per document
  workers      \* server: the ingestion workers

srvVars == <<index, workers>>

vars == <<chatVars, docsVars, appVars, srvVars>>

\* ------------------------------------------------------- pure functions

RECURSIVE TrimStart(_)
\* String.prototype.trim, leading part
TrimStart(s) ==
  IF s # <<>> /\ Head(s) = " " THEN TrimStart(Tail(s)) ELSE s

RECURSIVE TrimEnd(_)
\* String.prototype.trim, trailing part
TrimEnd(s) ==
  IF s # <<>> /\ s[Len(s)] = " " THEN TrimEnd(SubSeq(s, 1, Len(s) - 1)) ELSE s

Trim(s) == TrimEnd(TrimStart(s))

\* `user-${Date.now()}` and `assistant-${Date.now()}`
MessageId(role, t) == <<role, t>>

UserMessage(text, t) ==
  [id |-> MessageId("user", t), content |-> Trim(text), role |-> "user",
   contextChunks |-> NULL, isStreaming |-> FALSE]

AssistantMessage(t) ==
  [id |-> MessageId("assistant", t), content |-> <<>>, role |-> "assistant",
   contextChunks |-> NULL, isStreaming |-> TRUE]

\* One setMessages updater applied to prev; ref is currentMessageId.current at
\* the moment the updater runs.
ApplyUpdater(u, prev, ref) ==
  CASE u.op = "context" ->
         [i \in 1..Len(prev) |->
            IF prev[i].id = ref
              THEN [prev[i] EXCEPT !.contextChunks = u.arg] ELSE prev[i]]
    [] u.op = "answer_chunk" ->
         [i \in 1..Len(prev) |->
            IF prev[i].id = ref
              THEN [prev[i] EXCEPT !.content = prev[i].content \o u.arg]
              ELSE prev[i]]
    [] u.op = "complete" ->
         [i \in 1..Len(prev) |->
            IF prev[i].id = ref
              THEN [prev[i] EXCEPT !.isStreaming = FALSE] ELSE prev[i]]
    [] u.op = "error" ->
         SelectSeq(prev, LAMBDA m: m.id # ref)
    [] u.op = "send" ->
         prev \o u.arg
    [] u.op = "sendFailed" ->
         SelectSeq(prev, LAMBDA m: m.id # u.arg)
    [] u.op = "clear" ->
         <<>>

RECURSIVE ApplyQueue(_, _, _)
ApplyQueue(q, prev, ref) ==
  IF q = <<>> THEN prev
  ELSE ApplyQueue(Tail(q), ApplyUpdater(Head(q), prev, ref), ref)

\* ------------------------------------------------------ React state cell

\* The hook's React state as one value, threaded through a handler's calls.
HookState ==
  [isConnected |-> isConnected, messages |-> messages, isLoading |-> isLoading,
   currentSessionId |-> currentSessionId, dirty |-> dirty, queue |-> msgQueue]

\* setIsConnected / setIsLoading / setCurrentSessionId with a plain value.
\* With nothing pending an equal value bails out without scheduling a render.
SetValue(h, field, v) ==
  [h EXCEPT ![field] = v,
            !.dirty = (h.dirty \/ h[field] # v) /\ ~legacyRoot]

\* setMessages(updater): computed at once, with the ref as it is now, when
\* nothing is pending; queued for the next render otherwise.
SetMessages(h, u, ref) ==
  IF h.dirty
    THEN [h EXCEPT !.queue = Append(h.queue, u)]
    ELSE [h EXCEPT !.messages = ApplyUpdater(u, h.messages, ref),
                   !.dirty = ~legacyRoot]

\* A render: the queued updaters run, reading the ref as it is now.
RenderState(h, ref) ==
  [h EXCEPT !.messages = ApplyQueue(h.queue, h.messages, ref),
            !.queue = <<>>, !.dirty = FALSE]

\* The message list the next render shows.
View == ApplyQueue(msgQueue, messages, currentMessageId)

\* Store a handler's result.  flush: the handler ran in a discrete DOM event
\* or an effect, after which React renders before anything else happens.
Commit(h, ref, flush) ==
  LET g == IF flush THEN RenderState(h, ref) ELSE h IN
  /\ Len(g.queue) <= MaxQueue
  /\ isConnected' = g.isConnected
  /\ messages' = g.messages
  /\ isLoading' = g.isLoading
  /\ currentSessionId' = g.currentSessionId
  /\ dirty' = g.dirty
  /\ msgQueue' = g.queue
  /\ currentMessageId' = ref
  /\ rendered' = IF g.dirty THEN rendered
                 ELSE [isConnected |-> g.isConnected, isLoading |-> g.isLoading,
                       currentSessionId |-> g.currentSessionId]

\* ------------------------------------------------------- WebSocketClient

\* WebSocketClient.isConnected
IsConnected(cs, ss, k) ==
  k # 0 /\ cs[k].ws # 0 /\ ss[cs[k].ws].rs = "OPEN"

\* WebSocketClient.connect: a new WebSocket, stored in this.ws
ClientConnect(cs, ss, k) ==
  [clients |-> [cs EXCEPT ![k].ws = Len(ss) + 1],
   socks |-> Append(ss, [client |-> k, rs |-> "CONNECTING"])]

\* WebSocketClient.close: ws.close() and this.ws = null.  close() on a socket
\* that is connecting or open starts the closing handshake.
ClientClose(cs, ss, k) ==
  IF cs[k].ws = 0 THEN [clients |-> cs, socks |-> ss]
  ELSE [clients |-> [cs EXCEPT ![k].ws = 0],
        socks |-> [ss EXCEPT ![cs[k].ws].rs =
                     IF @ \in {"CONNECTING", "OPEN"} THEN "CLOSING" ELSE @]]

maxReconnectAttempts == 3

\* ------------------------------------------------------------ useWebSocket

\* handleMessage, case 'connected'
OnConnected(h, ref) ==
  [h |-> SetValue(h, "isConnected", TRUE), ref |-> ref]

\* handleMessage, case 'context'
OnContext(h, ref, content) ==
  [h |-> IF ref # NoId
         THEN SetMessages(h, [op |-> "context", arg |-> content], ref)
         ELSE h,
   ref |-> ref]

\* handleMessage, case 'session'
OnSession(h, ref, content) ==
  [h |-> SetValue(h, "currentSessionId", content), ref |-> ref]

\* handleMessage, case 'answer_chunk'
OnAnswerChunk(h, ref, content) ==
  [h |-> IF ref # NoId
         THEN SetMessages(h, [op |-> "answer_chunk", arg |-> content], ref)
         ELSE h,
   ref |-> ref]

\* handleMessage, case 'complete': setMessages, setIsLoading(false), then
\* currentMessageId.current = null
OnComplete(h, ref) ==
  [h |-> SetValue(
           IF ref # NoId
           THEN SetMessages(h, [op |-> "complete", arg |-> NULL], ref)
           ELSE h,
           "isLoading", FALSE),
   ref |-> NoId]

\* Mutant of OnError: the failed turn also forgets the session
OnError_ForgetsSession(h, ref) ==
  LET h1 == SetValue(SetValue(h, "isLoading", FALSE), "currentSessionId", NoSession) IN
  [h |-> IF ref # NoId
         THEN SetMessages(h1, [op |-> "error", arg |-> NULL], ref)
         ELSE h1,
   ref |-> NoId]

\* handleMessage, case 'error': setIsLoading(false), setMessages, then
\* currentMessageId.current = null
OnError(h, ref) ==
  LET h1 == SetValue(h, "isLoading", FALSE) IN
  [h |-> IF ref # NoId
         THEN SetMessages(h1, [op |-> "error", arg |-> NULL], ref)
         ELSE h1,
   ref |-> NoId]

\* handleMessage
HandleMessage(h, ref, type, content) ==
  CASE type = "connected" -> OnConnected(h, ref)
    [] type = "status" -> [h |-> h, ref |-> ref]
    [] type = "context" -> OnContext(h, ref, content)
    [] type = "session" -> OnSession(h, ref, content)
    [] type = "answer_chunk" -> OnAnswerChunk(h, ref, content)
    [] type = "complete" -> OnComplete(h, ref)
    [] type = "error" -> OnError(h, ref)

\* handleError
HandleError(h) == SetValue(h, "isConnected", FALSE)

\* handleClose
HandleClose(h) == SetValue(h, "isConnected", FALSE)

\* disconnect, the React state part
DisconnectState(h, ref) ==
  SetValue(SetMessages(SetValue(h, "isConnected", FALSE),
                       [op |-> "clear", arg |-> NULL], ref),
           "currentSessionId", NoSession)

\* sendMessage, after its guard: the React state part.  canSend: the socket
\* is open, so WebSocketClient.sendMessage does not throw.
SendState(h, text, t, canSend) ==
  LET h1 == SetValue(
              SetMessages(h, [op |-> "send",
                              arg |-> <<UserMessage(text, t), AssistantMessage(t)>>],
                          NoId),
              "isLoading", TRUE)
  IN IF canSend THEN h1
     ELSE SetValue(
            SetMessages(h1, [op |-> "sendFailed",
                             arg |-> MessageId("assistant", t)], NoId),
            "isLoading", FALSE)

\* The frame WebSocketClient.sendMessage writes: the untrimmed message and
\* the session id of the sendMessage closure (currentSessionId || undefined).
Frame(text, sid, s) == [message |-> text, session_id |-> sid, sock |-> s]

\* sendMessage of the hook; t is what Date.now() returns: milliseconds
\* counted from its first call, and the clock does not run backwards
SendMessageBody(text, t, flush) ==
  /\ IsConnected(clients, socks, wsClient)
  /\ Trim(text) # <<>>
  /\ Len(sent) < MaxSent
  /\ IF now < 0 THEN t = 0 ELSE t >= now
  /\ now' = t
  /\ LET canSend == clients[wsClient].ws # 0
                    /\ socks[clients[wsClient].ws].rs = "OPEN"
     IN /\ Commit(SendState(HookState, text, t, canSend),
                  IF canSend THEN MessageId("assistant", t) ELSE NoId, flush)
        /\ sent' = IF canSend
                   THEN Append(sent, Frame(text, rendered.currentSessionId,
                                           clients[wsClient].ws))
                   ELSE sent
        /\ streamPos' = IF canSend THEN 0 ELSE streamPos
  /\ UNCHANGED <<docsVars, appVars, srvVars, legacyRoot, documentId, wsClient, clients, socks>>

\* useWebSocket.sendMessage called directly
SendMessage(text, t) == SendMessageBody(text, t, FALSE)

\* ChatInterface.handleSendMessage, from a click or the Enter key.  The input
\* is emptied by each submission and typed anew before the next, so that two
\* submissions of the user are at least a millisecond apart.
HandleSendMessage(text, t) ==
  /\ t > now
  /\ Trim(text) # <<>>
  /\ ~rendered.isLoading
  /\ rendered.isConnected
  /\ SendMessageBody(text, t, TRUE)

\* clearMessages, from the "Clear chat" button
ClearMessages ==
  /\ Commit(SetValue(SetMessages(HookState, [op |-> "clear", arg |-> NULL],
                                 currentMessageId),
                     "currentSessionId", NoSession),
            currentMessageId, TRUE)
  /\ UNCHANGED <<docsVars, appVars, srvVars, legacyRoot, now, documentId, wsClient, clients, socks, sent, streamPos>>

\* The effect of useWebSocket for a new documentId: the cleanup of the old
\* effect (disconnect), then connect for a document or disconnect for none,
\* while fewer than maxClients clients and maxSocks WebSockets were created.
SetDocumentBody(d, maxClients, maxSocks) ==
  /\ d # documentId
  /\ documentId' = d
  /\ LET closed == IF wsClient = 0 THEN [clients |-> clients, socks |-> socks]
                   ELSE ClientClose(clients, socks, wsClient)
         k == Len(closed.clients) + 1
         opened == ClientConnect(
                     Append(closed.clients, [ws |-> 0, reconnectAttempts |-> 0,
                                             timers |-> 0]),
                     closed.socks, k)
     IN IF d = NoDoc
        THEN /\ clients' = closed.clients
             /\ socks' = closed.socks
             /\ wsClient' = 0
        ELSE /\ Len(clients) < maxClients
             /\ Len(socks) < maxSocks
             /\ clients' = opened.clients
             /\ socks' = opened.socks
             /\ wsClient' = k
  /\ Commit(DisconnectState(HookState, currentMessageId), currentMessageId, TRUE)
  /\ UNCHANGED <<docsVars, appVars, srvVars, legacyRoot, now, sent, streamPos>>

\* documentId changes
SetDocument(d) == SetDocumentBody(d, MaxClients, MaxSocks)

\* A render scheduled by React runs
Render ==
  /\ dirty
  /\ Commit(HookState, currentMessageId, TRUE)
  /\ UNCHANGED <<docsVars, appVars, srvVars, legacyRoot, now, documentId, wsClient, clients, socks, sent, streamPos>>

\* --------------------------------------------------------- socket events

\* ws.onopen
SockOpen(s) ==
  /\ s <= Len(socks)
  /\ socks[s].rs = "CONNECTING"
  /\ socks' = [socks EXCEPT ![s].rs = "OPEN"]
  /\ clients' = [clients EXCEPT ![socks[s].client].reconnectAttempts = 0]
  /\ UNCHANGED <<docsVars, appVars, srvVars, legacyRoot, now, documentId, isConnected, messages, isLoading,
                 currentSessionId, wsClient, currentMessageId, dirty, msgQueue,
                 rendered, sent, streamPos>>

\* ws.onmessage: a frame of the server parsed and given to handleMessage
SockMessage(s, type, content) ==
  /\ s <= Len(socks)
  /\ socks[s].rs = "OPEN"
  /\ IF type = "answer_chunk"
       THEN /\ streamPos < MaxContent
            /\ content = <<streamPos + 1>>
            /\ streamPos' = streamPos + 1
       ELSE UNCHANGED streamPos
  /\ LET r == HandleMessage(HookState, currentMessageId, type, content)
     IN Commit(r.h, r.ref, FALSE)
  /\ UNCHANGED <<docsVars, appVars, srvVars, legacyRoot, now, documentId, wsClient, clients, socks, sent>>

\* Mutant of OnCloseClient: the number of attempts is not looked at
OnCloseClient_Unbounded(cs, k, wasClean) ==
  IF ~wasClean THEN [cs EXCEPT ![k].timers = @ + 1] ELSE cs

\* ws.onclose, the WebSocketClient part: a reconnect timer when the close
\* was not clean and attempts are left
OnCloseClient(cs, k, wasClean) ==
  IF ~wasClean /\ cs[k].reconnectAttempts < maxReconnectAttempts
    THEN [cs EXCEPT ![k].timers = @ + 1]
    ELSE cs

\* The connection closes without failing: a close event alone
SockClose(s, wasClean) ==
  /\ s <= Len(socks)
  /\ socks[s].rs \in {"OPEN", "CLOSING"}
  /\ socks' = [socks EXCEPT ![s].rs = "CLOSED"]
  /\ clients' = OnCloseClient(clients, socks[s].client, wasClean)
  /\ Commit(HandleClose(HookState), currentMessageId, FALSE)
  /\ UNCHANGED <<docsVars, appVars, srvVars, legacyRoot, now, documentId, wsClient, sent, streamPos>>

\* The connection fails: an error event, then a close event that is not clean
SockFail(s) ==
  /\ s <= Len(socks)
  /\ socks[s].rs \in {"CONNECTING", "OPEN", "CLOSING"}
  /\ socks' = [socks EXCEPT ![s].rs = "CLOSED"]
  /\ clients' = OnCloseClient(clients, socks[s].client, FALSE)
  /\ Commit(HandleClose(HandleError(HookState)), currentMessageId, FALSE)
  /\ UNCHANGED <<docsVars, appVars, srvVars, legacyRoot, now, documentId, wsClient, sent, streamPos>>

\* The callback of the reconnect timer: reconnectAttempts++ and connect(),
\* while fewer than max WebSockets have been created
ReconnectBody(k, max) ==
  /\ k <= Len(clients)
  /\ clients[k].timers > 0
  /\ Len(socks) < max
  /\ LET c1 == [clients EXCEPT ![k].timers = @ - 1,
                               ![k].reconnectAttempts = @ + 1]
         r == ClientConnect(c1, socks, k)
     IN /\ clients' = r.clients
        /\ socks' = r.socks
  /\ UNCHANGED <<docsVars, appVars, srvVars, legacyRoot, now, documentId, isConnected, messages, isLoading,
                 currentSessionId, wsClient, currentMessageId, dirty, msgQueue,
                 rendered, sent, streamPos>>

\* The reconnect timer of client k fires
ReconnectTimer(k) == ReconnectBody(k, MaxSocks)

\* ------------------------------------------------------------------ chat

\* WebSocketMessage.type
MessageTypes ==
  {"connected", "status", "context", "session", "answer_chunk", "complete", "error"}

\* WebSocketMessage.content of a frame of the given type
Payloads(type) ==
  CASE type = "context" -> ContextPayloads
    [] type = "session" -> SessionIds
    [] type = "answer_chunk" -> ChunkTexts
    [] OTHER -> {NULL}

ChatInit ==
  /\ legacyRoot \in BOOLEAN
  /\ now = -1
  /\ documentId = NoDoc
  /\ isConnected = FALSE
  /\ messages = <<>>
  /\ isLoading = FALSE
  /\ currentSessionId = NoSession
  /\ wsClient = 0
  /\ currentMessageId = NoId
  /\ dirty = FALSE
  /\ msgQueue = <<>>
  /\ rendered = [isConnected |-> FALSE, isLoading |-> FALSE,
                 currentSessionId |-> NoSession]
  /\ clients = <<>>
  /\ socks = <<>>
  /\ sent = <<>>
  /\ streamPos = 0

ChatNext ==
  \/ \E d \in Docs \cup {NoDoc} : SetDocument(d)
  \/ \E text \in InputTexts, t \in 0..MaxNow : SendMessage(text, t)
  \/ \E text \in InputTexts, t \in 0..MaxNow : HandleSendMessage(text, t)
  \/ ClearMessages
  \/ Render
  \/ \E s \in 1..MaxSocks : SockOpen(s)
  \/ \E s \in 1..MaxSocks, type \in MessageTypes :
       \E content \in Payloads(type) : SockMessage(s, type, content)
  \/ \E s \in 1..MaxSocks, c \in BOOLEAN : SockClose(s, c)
  \/ \E s \in 1..MaxSocks : SockFail(s)
  \/ \E k \in 1..MaxClients : ReconnectTimer(k)

\* =========================================================== useDocuments

MaxInFlight == 2   \* status requests of one document awaiting their response
MaxDocs == 1       \* documents uploaded

pollIntervalMs == 2000
pollTimeoutMs == 300000
\* interval callbacks due before the timeout callback: those at 2000, 4000,
\* ..., 300000 ms (a timer registered earlier runs first when both are due)
PollLimit == pollTimeoutMs \div pollIntervalMs

\* a File: its name, a sequence of characters, and its size in bytes
Files == {[name |-> <<"a", ".", "p", "d", "f">>, size |-> 1]}
Terminal == {"completed", "failed"}
\* a request the server has not answered yet
NoStatus == [status |-> "none", total_chunks |-> 0, error_message |-> NULL]

\* The ingestion pipeline of the server, seen through its status endpoint:
\* Pending -> Processing -> Completed | Failed
ServerAdvance(d) ==
  /\ d <= Len(srvDocs)
  /\ \/ /\ srvDocs[d].status = "pending"
        /\ srvDocs' = [srvDocs EXCEPT ![d].status = "processing"]
     \/ /\ srvDocs[d].status = "processing"
        /\ srvDocs' = [srvDocs EXCEPT ![d].status = "completed",
                                      ![d].total_chunks = 3]
     \/ /\ srvDocs[d].status = "processing"
        /\ srvDocs' = [srvDocs EXCEPT ![d].status = "failed",
                                      ![d].error_message = "err"]
  /\ UNCHANGED <<chatVars, fetches, appVars, srvVars, uploads, documents, pollers, reqs>>

\* documentAPI.upload is called for file f
UploadRequest(f) ==
  /\ Len(srvDocs) + Cardinality(uploads) < MaxDocs
  /\ [file |-> f, id |-> 0] \notin uploads
  /\ uploads' = uploads \cup {[file |-> f, id |-> 0]}

\* uploadDocument: documentAPI.upload is called
UploadStart(f) ==
  /\ UploadRequest(f)
  /\ UNCHANGED <<chatVars, fetches, appVars, srvVars, srvDocs, documents, pollers, reqs>>

\* The server stores the upload as a new Pending document
UploadServed(u) ==
  /\ u \in uploads
  /\ u.id = 0
  /\ srvDocs' = Append(srvDocs, [status |-> "pending", total_chunks |-> 0,
                                 error_message |-> NULL])
  /\ uploads' = (uploads \ {u}) \cup {[u EXCEPT !.id = Len(srvDocs) + 1]}
  /\ UNCHANGED <<chatVars, fetches, appVars, srvVars, documents, pollers, reqs>>

\* The Document of an upload response or a list entry
DocumentOf(id, f, rec) ==
  [id |-> id, original_filename |-> f, processing_status |-> rec.status,
   total_chunks |-> rec.total_chunks, error_message |-> rec.error_message]

\* pollDocumentStatus: setInterval and setTimeout are registered
NewPoller(id) ==
  [doc |-> id, active |-> TRUE, ticks |-> 0, timeoutPending |-> TRUE]

\* uploadDocument after the await: the document is prepended and polled
UploadDone(u) ==
  /\ u \in uploads
  /\ u.id # 0
  /\ uploads' = uploads \ {u}
  /\ documents' = <<DocumentOf(u.id, u.file.name, srvDocs[u.id])>> \o documents
  /\ pollers' = Append(pollers, NewPoller(u.id))

\* uploadDocument called by a caller of the hook, after the await
UploadResponse(u) ==
  /\ UploadDone(u)
  /\ UNCHANGED <<chatVars, fetches, appVars, srvVars, srvDocs, reqs>>

\* uploadDocument, catch: the request failed, nothing is added
UploadFailed(u) ==
  /\ u \in uploads
  /\ uploads' = uploads \ {u}
  /\ UNCHANGED <<chatVars, fetches, appVars, srvVars, srvDocs, documents, pollers, reqs>>

\* The interval callback of poller p runs: a status request is issued
PollTick(p) ==
  /\ p <= Len(pollers)
  /\ pollers[p].active
  /\ pollers[p].timeoutPending => pollers[p].ticks < PollLimit
  /\ Len(SelectSeq(reqs, LAMBDA r: r.poller = p)) < MaxInFlight
  /\ pollers' = [pollers EXCEPT ![p].ticks = @ + 1]
  /\ reqs' = Append(reqs, [poller |-> p, resp |-> NoStatus])
  /\ UNCHANGED <<chatVars, fetches, appVars, srvVars, srvDocs, uploads, documents>>

\* The server reads the status for request i
StatusServed(i) ==
  /\ i <= Len(reqs)
  /\ reqs[i].resp = NoStatus
  /\ srvDocs[pollers[reqs[i].poller].doc].status # "deleted"
  /\ reqs' = [reqs EXCEPT ![i].resp = srvDocs[pollers[reqs[i].poller].doc]]
  /\ UNCHANGED <<chatVars, fetches, appVars, srvVars, srvDocs, uploads, documents, pollers>>

RemoveAt(s, i) == SubSeq(s, 1, i - 1) \o SubSeq(s, i + 1, Len(s))

\* Mutant of ApplyStatus: the test of the id is left out
ApplyStatus_Every(docs, id, status) ==
  [j \in 1..Len(docs) |->
     [docs[j] EXCEPT !.processing_status = status.status,
                     !.total_chunks = status.total_chunks,
                     !.error_message = status.error_message]]

\* The list update of the interval callback
ApplyStatus(docs, id, status) ==
  [j \in 1..Len(docs) |->
     IF docs[j].id = id
       THEN [docs[j] EXCEPT !.processing_status = status.status,
                            !.total_chunks = status.total_chunks,
                            !.error_message = status.error_message]
       ELSE docs[j]]

\* clearInterval(pollInterval)
ClearInterval(ps, p) == [ps EXCEPT ![p].active = FALSE]

\* The interval callback after the await: the response is applied and the
\* interval is cleared on a terminal status
AfterStatus(ps, p, status) ==
  IF status.status = "completed" \/ status.status = "failed"
    THEN ClearInterval(ps, p) ELSE ps

StatusResponse(i) ==
  /\ i <= Len(reqs)
  /\ reqs[i].resp # NoStatus
  /\ documents' = ApplyStatus(documents, pollers[reqs[i].poller].doc, reqs[i].resp)
  /\ pollers' = AfterStatus(pollers, reqs[i].poller, reqs[i].resp)
  /\ reqs' = RemoveAt(reqs, i)
  /\ UNCHANGED <<chatVars, fetches, appVars, srvVars, srvDocs, uploads>>

\* Mutant of AfterStatusError: the catch block forgets clearInterval
AfterStatusError_KeepsPolling(ps, p) == ps

\* The interval callback, catch: the interval is cleared
AfterStatusError(ps, p) == ClearInterval(ps, p)

StatusError(i) ==
  /\ i <= Len(reqs)
  /\ pollers' = AfterStatusError(pollers, reqs[i].poller)
  /\ reqs' = RemoveAt(reqs, i)
  /\ UNCHANGED <<chatVars, fetches, appVars, srvVars, srvDocs, uploads, documents>>

\* The timeout callback, 300000 ms after the start: the interval is cleared
PollTimeout(p) ==
  /\ p <= Len(pollers)
  /\ pollers[p].timeoutPending
  /\ pollers[p].ticks >= PollLimit
  /\ pollers' = [ClearInterval(pollers, p) EXCEPT ![p].timeoutPending = FALSE]
  /\ UNCHANGED <<chatVars, fetches, appVars, srvVars, srvDocs, uploads, documents, reqs>>

\* The name GET /documents gives for a stored document: the specifications
\* with a list request upload the one file of Files
ListedName == (CHOOSE f \in Files : TRUE).name

\* The answer of GET /documents: the documents stored and not deleted
Listed ==
  LET all == [id \in 1..Len(srvDocs) |-> DocumentOf(id, ListedName, srvDocs[id])]
  IN SelectSeq(all, LAMBDA doc : doc.processing_status # "deleted")

\* fetchDocuments of the mount effect: documentAPI.list is called
MountFetch == [served |-> FALSE, docs |-> <<>>]

\* every list request there can be
FetchRequests ==
  {MountFetch} \cup
  [served : {TRUE},
   docs : {<<>>} \cup {<<DocumentOf(1, ListedName, [status |-> st, total_chunks |-> n,
                                                    error_message |-> e])>> :
                         st \in {"pending", "processing", "completed", "failed"},
                         n \in {0, 3}, e \in {NULL, "err"}}]

\* The server answers the list request
FetchServed(r) ==
  /\ r \in fetches
  /\ ~r.served
  /\ fetches' = (fetches \ {r}) \cup {[served |-> TRUE, docs |-> Listed]}
  /\ UNCHANGED <<chatVars, appVars, srvVars, srvDocs, uploads, documents, pollers, reqs>>

\* fetchDocuments after the await: setDocuments(docs) replaces the list
FetchResponse(r) ==
  /\ r \in fetches
  /\ r.served
  /\ documents' = r.docs
  /\ fetches' = fetches \ {r}
  /\ UNCHANGED <<chatVars, appVars, srvVars, srvDocs, uploads, pollers, reqs>>

\* fetchDocuments, catch: the list stays as it is
FetchFailed(r) ==
  /\ r \in fetches
  /\ fetches' = fetches \ {r}
  /\ UNCHANGED <<chatVars, appVars, srvVars, srvDocs, uploads, documents, pollers, reqs>>

\* loading of useDocuments: set by fetchDocuments until its request has ended
Loading == fetches # {}

DocsInit ==
  /\ srvDocs = <<>>
  /\ uploads = {}
  /\ documents = <<>>
  /\ pollers = <<>>
  /\ reqs = <<>>
  /\ fetches = {}

\* every upload request there can be: a file and the id the server gave it
Uploads == [file : Files, id : 0..MaxDocs]

DocsNext ==
  \/ \E f \in Files : UploadStart(f)
  \/ \E u \in Uploads : UploadServed(u)
  \/ \E u \in Uploads : UploadResponse(u)
  \/ \E u \in Uploads : UploadFailed(u)
  \/ \E d \in 1..MaxDocs : ServerAdvance(d)
  \/ \E p \in 1..MaxDocs : PollTick(p)
  \/ \E i \in 1..(MaxDocs * MaxInFlight) : StatusServed(i)
  \/ \E i \in 1..(MaxDocs * MaxInFlight) : StatusResponse(i)
  \/ \E i \in 1..(MaxDocs * MaxInFlight) : StatusError(i)
  \/ \E p \in 1..MaxDocs : PollTimeout(p)

\* ==================================================================== App

MaxDeletes == 1   \* delete requests in flight
MaxConfirmTimers == 2   \* timers of DocumentList.handleDelete pending at once

\* selectedDocument null
NoDocument == DocumentOf(NoDoc, <<>>, NoStatus)
\* uploadProgress null
NoProgress == -1

\* ------------------------------------------------------- DocumentUpload

supportedTypes ==
  {<<"p", "d", "f">>, <<"d", "o", "c", "x">>, <<"d", "o", "c">>, <<"t", "x", "t">>}
maxSize == 50 * 1024 * 1024

\* String.prototype.toLowerCase, on the letters file names are built from
LowerChar(c) ==
  CASE c = "A" -> "a" [] c = "C" -> "c" [] c = "D" -> "d" [] c = "E" -> "e"
    [] c = "F" -> "f" [] c = "O" -> "o" [] c = "P" -> "p" [] c = "T" -> "t"
    [] c = "X" -> "x" [] OTHER -> c
ToLowerCase(str) == [i \in 1..Len(str) |-> LowerChar(str[i])]

\* name.split('.').pop(): the text after the last dot, the whole name when
\* there is no dot
RECURSIVE SplitPop(_)
SplitPop(str) ==
  IF str = <<>> \/ str[Len(str)] = "." THEN <<>>
  ELSE Append(SplitPop(SubSeq(str, 1, Len(str) - 1)), str[Len(str)])

\* validateFile: the message of the error, NULL when the file is accepted
ValidateFile(file) ==
  LET extension == ToLowerCase(SplitPop(file.name))
  IN IF extension = <<>> \/ extension \notin supportedTypes THEN "Unsupported file type"
     ELSE IF file.size > maxSize THEN "File too large"
     ELSE NULL

\* the state of a DocumentList that has just been mounted: deleteConfirm null
\* and no timer of its own
MountedList == [deleteConfirm |-> NoDoc, timers |-> 0]

\* the state cells of a DocumentUpload that has just been mounted
MountedUpload ==
  [isUploading |-> FALSE, uploadProgress |-> NoProgress,
   processingPhase |-> NULL, currentFileName |-> <<>>]

\* handleFileUpload up to its await, reached from handleDrop or from the file
\* dialog (both refuse while isUploading); onUpload is handleUpload of App,
\* which calls uploadDocument, which calls documentAPI.upload
HandleFileUpload(file) ==
  /\ activeTab = "upload"
  /\ ~uploadUI.isUploading
  /\ IF ValidateFile(file) # NULL
       THEN /\ alertShown' = ValidateFile(file)
            /\ UNCHANGED <<uploadUI, uploads>>
       ELSE /\ \A u \in uploads : u.file # file
            /\ UploadRequest(file)
            /\ uploadUI' = [isUploading |-> TRUE, uploadProgress |-> 0,
                            processingPhase |-> "upload",
                            currentFileName |-> file.name]
            /\ UNCHANGED alertShown
  /\ UNCHANGED <<chatVars, listUI, fetches, srvVars, srvDocs, documents, pollers, reqs,
                 selectedDocument, activeTab, deletes>>

\* Mutant of SelectsUploaded: every uploaded document is selected
SelectsUploaded_Always(doc) == TRUE

\* handleUpload: the uploaded document is selected when it is ready
SelectsUploaded(doc) == doc.processing_status = "completed"

\* Mutant of AwaitedBy: the setters of an unmounted DocumentUpload reach the
\* one mounted now
AwaitedBy_Whoever(u) == activeTab = "upload"

\* The DocumentUpload that awaits the response to upload u is still mounted
AwaitedBy(u) ==
  /\ activeTab = "upload"
  /\ uploadUI.isUploading
  /\ uploadUI.processingPhase = "upload"
  /\ uploadUI.currentFileName = u.file.name

\* The upload is answered: uploadDocument, then handleUpload of App, then
\* handleFileUpload of the DocumentUpload that started it; when App leaves the
\* upload tab the DocumentUpload is unmounted and its state is gone
HandleUpload(u) ==
  /\ UploadDone(u)
  /\ LET uploadedDocument == DocumentOf(u.id, u.file.name, srvDocs[u.id])
     IN IF SelectsUploaded(uploadedDocument)
          THEN /\ selectedDocument' = uploadedDocument
               /\ activeTab' = "chat"
               /\ uploadUI' = MountedUpload
               /\ listUI' = MountedList
          ELSE /\ uploadUI' = IF AwaitedBy(u)
                                THEN [uploadUI EXCEPT !.processingPhase = "processing",
                                                      !.uploadProgress = 100]
                                ELSE uploadUI
               /\ UNCHANGED <<selectedDocument, activeTab, listUI>>
  /\ UNCHANGED <<chatVars, fetches, srvVars, srvDocs, reqs, alertShown, deletes>>

\* The two timers of handleFileUpload: 'processing' -> 'complete' -> reset
UploadPhaseTimer ==
  /\ activeTab = "upload"
  /\ \/ /\ uploadUI.processingPhase = "processing"
        /\ uploadUI' = [uploadUI EXCEPT !.processingPhase = "complete"]
     \/ /\ uploadUI.processingPhase = "complete"
        /\ uploadUI' = MountedUpload
  /\ UNCHANGED <<chatVars, listUI, docsVars, srvVars, selectedDocument, activeTab,
                 alertShown, deletes>>

\* ----------------------------------------------------------- navigation

Tabs == {"upload", "documents", "chat"}

\* The tab buttons and 'Upload New': the chat button is disabled while no
\* document is selected
SetActiveTab(tab) ==
  /\ tab # activeTab
  /\ tab = "chat" => selectedDocument # NoDocument
  /\ activeTab' = tab
  /\ uploadUI' = MountedUpload
  /\ listUI' = MountedList
  /\ UNCHANGED <<chatVars, docsVars, srvVars, selectedDocument, alertShown, deletes>>

\* A click on entry i of DocumentList: handleDocumentSelect, for a completed
\* document only
HandleDocumentSelect(i) ==
  /\ activeTab = "documents"
  /\ ~Loading
  /\ i <= Len(documents)
  /\ documents[i].processing_status = "completed"
  /\ selectedDocument' = documents[i]
  /\ activeTab' = "chat"
  /\ listUI' = MountedList
  /\ UNCHANGED <<chatVars, docsVars, srvVars, uploadUI, alertShown, deletes>>

\* The document ChatInterface has its connection for: useWebSocket(document?.id)
ChatDocument == IF activeTab = "chat" THEN selectedDocument.id ELSE NoDoc

\* ChatInterface renders its input: a document is given and it is completed
ChatInputShown ==
  /\ activeTab = "chat"
  /\ selectedDocument # NoDocument
  /\ selectedDocument.processing_status = "completed"

\* --------------------------------------------------------------- delete

\* The confirmed click on the delete button of entry i: handleDelete of App
\* calls deleteDocument, which calls documentAPI.delete; the closure of
\* handleDelete holds the selectedDocument of the render it was made in
DeleteRequest(i) ==
  /\ activeTab = "documents"
  /\ ~Loading
  /\ i <= Len(documents)
  /\ Cardinality(deletes) < MaxDeletes
  /\ deletes' = deletes \cup {[id |-> documents[i].id,
                               selected |-> selectedDocument.id,
                               served |-> FALSE]}

\* onDocumentDelete(id) seen from App: the click that confirms is all there is
HandleDelete(i) ==
  /\ DeleteRequest(i)
  /\ UNCHANGED <<chatVars, docsVars, srvVars, selectedDocument, activeTab,
                 uploadUI, alertShown, listUI>>

\* Mutant of Confirms: every click on the delete button counts as confirmed
Confirms_Always(id) == TRUE

\* handleDelete of DocumentList, its test: deleteConfirm === id
Confirms(id) == listUI.deleteConfirm = id

\* A click on the delete button of entry i: handleDelete of DocumentList.
\* The click that confirms calls onDocumentDelete and sets deleteConfirm to
\* null; any other click sets deleteConfirm to the id and starts a timer.
DeleteClick(i) ==
  /\ activeTab = "documents"
  /\ ~Loading
  /\ i <= Len(documents)
  /\ IF Confirms(documents[i].id)
       THEN /\ DeleteRequest(i)
            /\ listUI' = [listUI EXCEPT !.deleteConfirm = NoDoc]
       ELSE /\ listUI.timers < MaxConfirmTimers
            /\ listUI' = [deleteConfirm |-> documents[i].id,
                          timers |-> listUI.timers + 1]
            /\ UNCHANGED deletes
  /\ UNCHANGED <<chatVars, docsVars, srvVars, selectedDocument, activeTab,
                 uploadUI, alertShown>>

\* The callback of a timer of handleDelete, 3000 ms after its click:
\* setDeleteConfirm(null), whatever deleteConfirm is by then
ConfirmTimeout ==
  /\ listUI.timers > 0
  /\ listUI' = [deleteConfirm |-> NoDoc, timers |-> listUI.timers - 1]
  /\ UNCHANGED <<chatVars, docsVars, srvVars, selectedDocument, activeTab,
                 uploadUI, alertShown, deletes>>

\* The server removes the document and its records
DeleteServed(r) ==
  /\ r \in deletes
  /\ ~r.served
  /\ srvDocs' = [srvDocs EXCEPT ![r.id].status = "deleted"]
  /\ index' = [index EXCEPT ![r.id] = {}]
  /\ deletes' = (deletes \ {r}) \cup {[r EXCEPT !.served = TRUE]}
  /\ UNCHANGED <<chatVars, listUI, fetches, uploads, documents, pollers, reqs, workers,
                 selectedDocument, activeTab, uploadUI, alertShown>>

\* deleteDocument after the await, then handleDelete after its await
DeleteResponse(r) ==
  /\ r \in deletes
  /\ r.served
  /\ deletes' = deletes \ {r}
  /\ documents' = SelectSeq(documents, LAMBDA doc : doc.id # r.id)
  /\ IF r.selected = r.id
       THEN /\ selectedDocument' = NoDocument
            /\ activeTab' = "documents"
            /\ uploadUI' = MountedUpload
       ELSE UNCHANGED <<selectedDocument, activeTab, uploadUI>>
  /\ UNCHANGED <<chatVars, listUI, fetches, srvVars, srvDocs, uploads, pollers, reqs, alertShown>>

\* Mutant of DeleteFailed: the entry is removed although the request failed
DeleteFailed_Removes(r) ==
  /\ r \in deletes
  /\ deletes' = deletes \ {r}
  /\ documents' = SelectSeq(documents, LAMBDA doc : doc.id # r.id)
  /\ UNCHANGED <<chatVars, listUI, fetches, srvVars, srvDocs, uploads, pollers, reqs,
                 selectedDocument, activeTab, uploadUI, alertShown>>

\* deleteDocument, catch: the request failed; handleDelete does nothing
DeleteFailed(r) ==
  /\ r \in deletes
  /\ deletes' = deletes \ {r}
  /\ UNCHANGED <<chatVars, listUI, docsVars, srvVars, selectedDocument, activeTab,
                 uploadUI, alertShown>>

\* every delete request there can be
DeleteRequests == [id : 1..MaxDocs, selected : 0..MaxDocs, served : BOOLEAN]

AppInit ==
  /\ listUI = MountedList
  /\ selectedDocument = NoDocument
  /\ activeTab = "documents"
  /\ uploadUI = MountedUpload
  /\ alertShown = NULL
  /\ deletes = {}

\* the files of the App specification, and its upload requests
AppUploads == [file : Files, id : 0..MaxDocs]

AppNext ==
  \/ \E f \in Files : HandleFileUpload(f)
  \/ \E u \in AppUploads : UploadServed(u)
  \/ \E u \in AppUploads : HandleUpload(u)
  \/ \E u \in AppUploads : UploadFailed(u)
  \/ UploadPhaseTimer
  \/ \E tab \in Tabs : SetActiveTab(tab)
  \/ \E i \in 1..MaxDocs : HandleDocumentSelect(i)
  \/ \E i \in 1..MaxDocs : HandleDelete(i)
  \/ \E r \in DeleteRequests : DeleteServed(r)
  \/ \E r \in DeleteRequests : DeleteResponse(r)
  \/ \E r \in DeleteRequests : DeleteFailed(r)
  \/ \E d \in 1..MaxDocs : ServerAdvance(d)
  \/ \E p \in 1..MaxDocs : PollTick(p)
  \/ \E i \in 1..(MaxDocs * MaxInFlight) : StatusServed(i)
  \/ \E i \in 1..(MaxDocs * MaxInFlight) : StatusResponse(i)
  \/ \E i \in 1..(MaxDocs * MaxInFlight) : StatusError(i)
  \/ \E p \in 1..MaxDocs : PollTimeout(p)

\* --------------------------------------------- the files given to upload

\* names: a stem, a dot or none, and an extension or none
NameStems == {<<>>, <<"a">>, <<"a", ".", "b">>}
NameDots == {<<>>, <<".">>}
NameEnds ==
  {<<>>, <<"p", "d", "f">>, <<"P", "D", "F">>, <<"P", "d", "f">>,
   <<"d", "o", "c", "x">>, <<"d", "o", "c">>, <<"D", "O", "C">>, <<"t", "x", "t">>,
   <<"e", "x", "e">>, <<"p", "d">>, <<"p", "d", "f", "x">>}
FileNames == {stem \o dot \o end : stem \in NameStems, dot \in NameDots, end \in NameEnds}
FileSizes == {0, 1, maxSize - 1, maxSize, maxSize + 1}

UploadFiles == [name : FileNames, size : FileSizes]
UploadRequests == [file : UploadFiles, id : 0..MaxDocs]

UploadNext ==
  \/ \E tab \in Tabs : SetActiveTab(tab)
  \/ \E f \in UploadFiles : HandleFileUpload(f)
  \/ \E u \in UploadRequests : UploadServed(u)
  \/ \E u \in UploadRequests : HandleUpload(u)
  \/ \E u \in UploadRequests : UploadFailed(u)
  \/ UploadPhaseTimer
  \/ \E d \in 1..MaxDocs : ServerAdvance(d)

\* ===================================================== ingestion pipeline

MaxWorkers == 2   \* workers of the pool
MaxChunks == 2    \* segments the chunker cuts a document into

Workers == 1..MaxWorkers

IdleWorker == [state |-> "idle", doc |-> NoDoc, chunks |-> 0, embedded |-> 0]

\* the steps a worker is in between its claim and its last transition
Stages == {"extract", "chunk", "embed", "upsert", "complete"}

\* A worker of the pool takes a Pending document off the queue
WorkerPick(w, d) ==
  /\ workers[w].state = "idle"
  /\ d <= Len(srvDocs)
  /\ srvDocs[d].status = "pending"
  /\ workers' = [workers EXCEPT ![w] = [IdleWorker EXCEPT !.state = "claiming",
                                                          !.doc = d]]
  /\ UNCHANGED <<chatVars, docsVars, appVars, index>>

\* Mutant of ClaimCondition: the claim does not look at the status it replaces
ClaimCondition_Any(rec) == rec.status \in {"pending", "processing"}

\* The condition of the atomic claim: Pending -> Processing only if Pending
ClaimCondition(rec) == rec.status = "pending"

\* The atomic claim of worker w: a compare-and-swap on the status
WorkerClaim(w) ==
  /\ workers[w].state = "claiming"
  /\ IF ClaimCondition(srvDocs[workers[w].doc])
       THEN /\ srvDocs' = [srvDocs EXCEPT ![workers[w].doc].status = "processing"]
            /\ workers' = [workers EXCEPT ![w].state = "extract"]
       ELSE /\ workers' = [workers EXCEPT ![w] = IdleWorker]
            /\ UNCHANGED srvDocs
  /\ UNCHANGED <<chatVars, fetches, appVars, index, uploads, documents, pollers, reqs>>

\* Step 1: the text is extracted from the source bytes
WorkerExtract(w) ==
  /\ workers[w].state = "extract"
  /\ workers' = [workers EXCEPT ![w].state = "chunk"]
  /\ UNCHANGED <<chatVars, docsVars, appVars, index>>

\* Step 2: the text is cut into n segments
WorkerChunk(w, n) ==
  /\ workers[w].state = "chunk"
  /\ workers' = [workers EXCEPT ![w].state = "embed", ![w].chunks = n]
  /\ UNCHANGED <<chatVars, docsVars, appVars, index>>

\* Step 3: the next chunk gets its embedding vector
WorkerEmbed(w) ==
  /\ workers[w].state = "embed"
  /\ workers[w].embedded < workers[w].chunks
  /\ workers' = [workers EXCEPT
                   ![w].embedded = @ + 1,
                   ![w].state = IF workers[w].embedded + 1 = workers[w].chunks
                                  THEN "upsert" ELSE "embed"]
  /\ UNCHANGED <<chatVars, docsVars, appVars, index>>

\* Mutant of UpsertAll: the last record of the batch is lost
UpsertAll_Partial(n) == 0..(n - 2)

\* upsertAll: the records of n segments, ordinals 0-based and contiguous
UpsertAll(n) == 0..(n - 1)

\* Step 4: all records become visible in one batch
WorkerUpsert(w) ==
  /\ workers[w].state = "upsert"
  /\ index' = [index EXCEPT ![workers[w].doc] = UpsertAll(workers[w].chunks)]
  /\ workers' = [workers EXCEPT ![w].state = "complete"]
  /\ UNCHANGED <<chatVars, docsVars, appVars>>

\* Step 5: the document becomes Completed with chunkCount set
WorkerComplete(w) ==
  /\ workers[w].state = "complete"
  /\ srvDocs' = [srvDocs EXCEPT ![workers[w].doc].status = "completed",
                                ![workers[w].doc].total_chunks = workers[w].chunks]
  /\ workers' = [workers EXCEPT ![w] = IdleWorker]
  /\ UNCHANGED <<chatVars, fetches, appVars, index, uploads, documents, pollers, reqs>>

\* Mutant of FailedRecord: the failure is not recorded
FailedRecord_Forgotten(rec) == rec

\* The transition to Failed with a human-readable errorDetail
FailedRecord(rec) == [rec EXCEPT !.status = "failed", !.error_message = "err"]

\* An exception in steps 1-4: the document becomes Failed with errorDetail and
\* no record of it stays visible
WorkerFail(w) ==
  /\ workers[w].state \in {"extract", "chunk", "embed", "upsert"}
  /\ srvDocs' = [srvDocs EXCEPT ![workers[w].doc] = FailedRecord(@)]
  /\ index' = [index EXCEPT ![workers[w].doc] = {}]
  /\ workers' = [workers EXCEPT ![w] = IdleWorker]
  /\ UNCHANGED <<chatVars, fetches, appVars, uploads, documents, pollers, reqs>>

\* The worker crashes: whatever it has claimed stays as it is
WorkerCrash(w) ==
  /\ workers[w].state \in Stages
  /\ workers' = [workers EXCEPT ![w].state = "crashed"]
  /\ UNCHANGED <<chatVars, docsVars, appVars, index>>

SrvInit ==
  /\ index = [d \in 1..MaxDocs |-> {}]
  /\ workers = [w \in Workers |-> IdleWorker]

IngestNext ==
  \/ \E f \in Files : UploadStart(f)
  \/ \E u \in Uploads : UploadServed(u)
  \/ \E u \in Uploads : UploadResponse(u)
  \/ \E w \in Workers, d \in 1..MaxDocs : WorkerPick(w, d)
  \/ \E w \in Workers : WorkerClaim(w)
  \/ \E w \in Workers : WorkerExtract(w)
  \/ \E w \in Workers, n \in 1..MaxChunks : WorkerChunk(w, n)
  \/ \E w \in Workers : WorkerEmbed(w)
  \/ \E w \in Workers : WorkerUpsert(w)
  \/ \E w \in Workers : WorkerComplete(w)
  \/ \E w \in Workers : WorkerFail(w)
  \/ \E w \in Workers : WorkerCrash(w)

\* ======================================================== specifications

Init == ChatInit /\ DocsInit /\ AppInit /\ SrvInit

\* The chat session of one mounted ChatInterface
SpecChat == Init /\ [][ChatNext]_vars

\* The same session driven through ChatInterface alone: sendMessage is
\* reached only through handleSendMessage
ChatUINext ==
  \/ \E d \in Docs \cup {NoDoc} : SetDocument(d)
  \/ \E text \in InputTexts, t \in 0..MaxNow : HandleSendMessage(text, t)
  \/ ClearMessages
  \/ Render
  \/ \E s \in 1..MaxSocks : SockOpen(s)
  \/ \E s \in 1..MaxSocks, type \in MessageTypes :
       \E content \in Payloads(type) : SockMessage(s, type, content)
  \/ \E s \in 1..MaxSocks, c \in BOOLEAN : SockClose(s, c)
  \/ \E s \in 1..MaxSocks : SockFail(s)
  \/ \E k \in 1..MaxClients : ReconnectTimer(k)

SpecChatUI == Init /\ [][ChatUINext]_vars

\* One WebSocketClient with the sockets it opens one after the other: the
\* connection of a document that closes, fails and is reconnected
MaxAttemptSocks == 5   \* WebSocket objects ever created
MaxAttemptClients == 2 \* WebSocketClient objects ever created

Reconnect(k) == ReconnectBody(k, MaxAttemptSocks)

ChangeDocument(d) == SetDocumentBody(d, MaxAttemptClients, MaxAttemptSocks)

ReconnectNext ==
  \/ \E d \in Docs \cup {NoDoc} : ChangeDocument(d)
  \/ Render
  \/ \E s \in 1..MaxAttemptSocks : SockOpen(s)
  \/ \E s \in 1..MaxAttemptSocks : SockMessage(s, "connected", NULL)
  \/ \E s \in 1..MaxAttemptSocks, c \in BOOLEAN : SockClose(s, c)
  \/ \E s \in 1..MaxAttemptSocks : SockFail(s)
  \/ \E k \in 1..MaxAttemptClients : Reconnect(k)

SpecReconnect == Init /\ [][ReconnectNext]_vars

\* The document list with upload and status polling
InitDocs == Init /\ legacyRoot = TRUE

SpecDocs == InitDocs /\ [][DocsNext]_vars

\* App with its document list, upload and delete
SpecApp == InitDocs /\ [][AppNext]_vars

\* DocumentUpload of App with the upload request it issues, for files of every
\* kind; what becomes of the uploaded document afterwards is in SpecApp
SpecUpload == InitDocs /\ [][UploadNext]_vars

\* The ingestion pipeline of the server with its worker pool
SpecIngest == InitDocs /\ [][IngestNext]_vars

\* App from the mount of useDocuments on: the list request of the mount effect
\* is in flight while documents are uploaded and deleted
InitFetch ==
  /\ ChatInit /\ legacyRoot = TRUE
  /\ srvDocs = <<>> /\ uploads = {} /\ documents = <<>> /\ pollers = <<>>
  /\ reqs = <<>> /\ fetches = {MountFetch}
  /\ AppInit /\ SrvInit

FetchNext ==
  \/ \E r \in FetchRequests : FetchServed(r)
  \/ \E r \in FetchRequests : FetchResponse(r)
  \/ \E r \in FetchRequests : FetchFailed(r)
  \/ \E tab \in Tabs : SetActiveTab(tab)
  \/ \E f \in Files : HandleFileUpload(f)
  \/ \E u \in AppUploads : UploadServed(u)
  \/ \E u \in AppUploads : HandleUpload(u)
  \/ \E u \in AppUploads : UploadFailed(u)
  \/ UploadPhaseTimer
  \/ \E d \in 1..MaxDocs : ServerAdvance(d)
  \/ \E i \in 1..MaxDocs : HandleDocumentSelect(i)
  \/ \E i \in 1..MaxDocs : HandleDelete(i)
  \/ \E r \in DeleteRequests : DeleteServed(r)
  \/ \E r \in DeleteRequests : DeleteResponse(r)
  \/ \E r \in DeleteRequests : DeleteFailed(r)

SpecFetch == InitFetch /\ [][FetchNext]_vars

\* useDocuments polling two documents at once, with App's delete
MaxPolled == 2      \* documents uploaded and polled
MaxPollTicks == 1   \* interval callbacks looked at per document

\* the names of the files uploaded
PolledNames == <<<<"a", ".", "p", "d", "f">>, <<"a", ".", "t", "x", "t">>>>

\* The state after MaxPolled uploads have been answered, the server not having
\* started on them: the newest document first, one poller each
InitPolling ==
  /\ ChatInit /\ legacyRoot = TRUE
  /\ srvDocs = [d \in 1..MaxPolled |->
                  [status |-> "pending", total_chunks |-> 0, error_message |-> NULL]]
  /\ uploads = {}
  /\ documents = [j \in 1..MaxPolled |->
                    DocumentOf(MaxPolled + 1 - j, PolledNames[((MaxPolled - j) % 2) + 1],
                               srvDocs[MaxPolled + 1 - j])]
  /\ pollers = [d \in 1..MaxPolled |-> NewPoller(d)]
  /\ reqs = <<>>
  /\ fetches = {}
  /\ AppInit
  /\ index = [d \in 1..MaxPolled |-> {}]
  /\ workers = [w \in Workers |-> IdleWorker]

\* An interval callback, while fewer than MaxPollTicks ran for the document
PollTickBounded(p) ==
  /\ p <= Len(pollers)
  /\ pollers[p].ticks < MaxPollTicks
  /\ PollTick(p)

PolledDeletes == [id : 1..MaxPolled, selected : 0..MaxPolled, served : BOOLEAN]

PollingNext ==
  \/ \E d \in 1..MaxPolled : ServerAdvance(d)
  \/ \E p \in 1..MaxPolled : PollTickBounded(p)
  \/ \E i \in 1..(MaxPolled * MaxInFlight) : StatusServed(i)
  \/ \E i \in 1..(MaxPolled * MaxInFlight) : StatusResponse(i)
  \/ \E i \in 1..(MaxPolled * MaxInFlight) : StatusError(i)
  \/ \E i \in 1..MaxPolled : HandleDelete(i)
  \/ \E r \in PolledDeletes : DeleteServed(r)
  \/ \E r \in PolledDeletes : DeleteResponse(r)
  \/ \E r \in PolledDeletes : DeleteFailed(r)

SpecPolling == InitPolling /\ [][PollingNext]_vars

\* DocumentList of App with two documents uploaded: the delete button, its
\* timers, the tabs and the delete requests
ListNext ==
  \/ \E i \in 1..MaxPolled : DeleteClick(i)
  \/ ConfirmTimeout
  \/ \E tab \in Tabs : SetActiveTab(tab)
  \/ \E r \in PolledDeletes : DeleteServed(r)
  \/ \E r \in PolledDeletes : DeleteResponse(r)
  \/ \E r \in PolledDeletes : DeleteFailed(r)

SpecList == InitPolling /\ [][ListNext]_vars

\* ================================================================ claims

\* A turn is in flight from the moment sendMessage has written its frame until
\* a 'complete' or an 'error' event is handled: the ref is set by the first
\* and reset by the other two only.
TurnInFlight == currentMessageId # NoId

\* The socket that carries the turn in flight
TurnSocket == sent[Len(sent)].sock

\* Position of the assistant message the turn in flight streams into: the last
\* message with the id in the ref; 0 when there is none
InProgressIndex(msgs, ref) ==
  LET S == {i \in 1..Len(msgs) : msgs[i].id = ref /\ msgs[i].role = "assistant"}
  IN IF S = {} THEN 0 ELSE CHOOSE i \in S : \A j \in S : j <= i

ErrorEvent == \E s \in 1..Len(socks) : SockMessage(s, "error", NULL)

CompleteEvent == \E s \in 1..Len(socks) : SockMessage(s, "complete", NULL)

ChunkEvent(c) == \E s \in 1..Len(socks) : SockMessage(s, "answer_chunk", c)

ContextEvent(c) == \E s \in 1..Len(socks) : SockMessage(s, "context", c)

\* C1: while a turn is in flight, a further submission is rejected: no frame
\* is sent, no message is added and currentMessageId is not replaced.
C1_SingleFlight ==
  [][TurnInFlight =>
       /\ sent' = sent
       /\ Len(View') <= Len(View)
       /\ currentMessageId' \in {currentMessageId, NoId}]_vars

\* C2: every way a turn can end, the close or the failure of its socket
\* included, ends it: isLoading is false and currentMessageId is null.
C2_TurnAlwaysEnds ==
  [][(TurnInFlight /\ socks[TurnSocket].rs # "CLOSED"
       /\ socks'[TurnSocket].rs = "CLOSED")
     => isLoading' = FALSE /\ currentMessageId' = NoId]_vars

\* C3: an 'error' event during a turn removes exactly the assistant message
\* in progress, leaves every other message as it is, and sets isLoading to
\* false and currentMessageId to null.
C3_ErrorDiscardsAnswer ==
  [][(ErrorEvent /\ TurnInFlight) =>
       /\ View' = (IF InProgressIndex(View, currentMessageId) = 0 THEN View
                   ELSE RemoveAt(View, InProgressIndex(View, currentMessageId)))
       /\ isLoading' = FALSE
       /\ currentMessageId' = NoId]_vars

\* C4: when the connection of a streaming turn closes or fails, the partial
\* assistant message is discarded (no message stays with isStreaming = true)
\* and the messages of the user stay.
C4_CloseDiscardsPartial ==
  [][(TurnInFlight /\ socks[TurnSocket].rs # "CLOSED"
       /\ socks'[TurnSocket].rs = "CLOSED")
     => /\ \A i \in 1..Len(View') : ~View'[i].isStreaming
        /\ SelectSeq(View', LAMBDA m: m.role = "user")
             = SelectSeq(View, LAMBDA m: m.role = "user")]_vars

\* sendMessage passes its connection guard
SendAccepted == IsConnected(clients, socks, wsClient)

\* C5: an 'error' event leaves the connection (isConnected, the client and its
\* socket) and the session id as they are, a send that was accepted before it
\* is accepted after it, and every frame carries the session id of the
\* sendMessage closure, which the event does not change.
C5_ErrorKeepsSession ==
  [][/\ ErrorEvent =>
          /\ isConnected' = isConnected
          /\ wsClient' = wsClient
          /\ clients' = clients
          /\ socks' = socks
          /\ currentSessionId' = currentSessionId
          /\ rendered'.currentSessionId = rendered.currentSessionId
          /\ SendAccepted' = SendAccepted
     /\ Len(sent') > Len(sent) =>
          /\ SendAccepted
          /\ sent'[Len(sent')].session_id = rendered.currentSessionId]_vars

\* C5 witness: the first turn failed (its assistant message is gone while the
\* message of the user stays) and the second frame went out on the same
\* socket with the session id announced during the first turn.
C5_Witness ==
  /\ legacyRoot
  /\ Len(sent) = 2
  /\ sent[1].session_id = NoSession
  /\ sent[2].session_id \in SessionIds
  /\ sent[2].sock = sent[1].sock
  /\ Len(View) = 3
  /\ View[1].role = "user" /\ View[2].role = "user"
  /\ View[3].isStreaming

\* C6: an 'answer_chunk' appends its payload to the assistant message of the
\* turn in flight and to no other message (to none without a turn in flight),
\* and 'complete' leaves every content as the chunks built it.
C6_ChunksAssembleInOrder ==
  [][/\ \A c \in ChunkTexts :
          ChunkEvent(c) =>
            LET i == InProgressIndex(View, currentMessageId) IN
            View' = IF i = 0 THEN View
                    ELSE [View EXCEPT ![i].content = View[i].content \o c]
     /\ CompleteEvent =>
            /\ Len(View') = Len(View)
            /\ \A i \in 1..Len(View) : View'[i].content = View[i].content]_vars

\* C7: a 'context' event sets the contextChunks of the assistant message of
\* the turn in flight and of no other message (of none without a turn in
\* flight), and 'complete' leaves every contextChunks as it is.
C7_ContextOfItsTurn ==
  [][/\ \A c \in ContextPayloads :
          ContextEvent(c) =>
            LET i == InProgressIndex(View, currentMessageId) IN
            View' = IF i = 0 THEN View
                    ELSE [View EXCEPT ![i].contextChunks = c]
     /\ CompleteEvent =>
            /\ Len(View') = Len(View)
            /\ \A i \in 1..Len(View) :
                 View'[i].contextChunks = View[i].contextChunks]_vars

\* C8: once the entry of a document shows 'completed' or 'failed', no step
\* changes its processing_status.
C8_TerminalStatusSticks ==
  [][\A i \in 1..Len(documents), j \in 1..Len(documents') :
       (documents[i].id = documents'[j].id
         /\ documents[i].processing_status \in Terminal)
       => documents'[j].processing_status = documents[i].processing_status]_vars

RequestsOf(rs, p) == Len(SelectSeq(rs, LAMBDA r: r.poller = p))

\* C9: polling a document terminates.  A response that reports 'completed'
\* or 'failed', a failed request and the timeout each clear the interval; a
\* cleared interval stays cleared and issues no request; and no poller
\* issues more than 300000 / 2000 requests.
C9_PollingTerminates ==
  [][\A p \in 1..Len(pollers) :
       /\ pollers'[p].ticks <= PollLimit
       /\ ~pollers[p].active =>
            /\ ~pollers'[p].active
            /\ pollers'[p].ticks = pollers[p].ticks
            /\ RequestsOf(reqs', p) <= RequestsOf(reqs, p)
       /\ \A i \in 1..Len(reqs) :
            (/\ reqs[i].poller = p
             /\ \/ StatusResponse(i) /\ reqs[i].resp.status \in Terminal
                \/ StatusError(i))
            => ~pollers'[p].active
       /\ PollTimeout(p) => ~pollers'[p].active]_vars

\* C9 witness: a poller has issued its 150 requests and its timeout has run
C9_Witness ==
  \E p \in 1..Len(pollers) :
    /\ pollers[p].ticks = PollLimit
    /\ ~pollers[p].timeoutPending
    /\ ~pollers[p].active

\* C10: an uploaded document does not stay in a non-terminal status: when its
\* polling is over (interval cleared, no response outstanding) and the server
\* has brought it to 'completed' or 'failed', its list entry shows that status.
C10_TerminalStatusShown ==
  \A p \in 1..Len(pollers) :
    (/\ ~pollers[p].active
     /\ RequestsOf(reqs, p) = 0
     /\ srvDocs[pollers[p].doc].status \in Terminal)
    => \A i \in 1..Len(documents) :
         (documents[i].id = pollers[p].doc)
           => (documents[i].processing_status = srvDocs[pollers[p].doc].status)

\* C11: in every reachable state of App, selectedDocument is null or a document
\* whose processing_status is 'completed', and ChatInterface offers its input
\* only for the selected document, a completed one.
C11_SelectedIsCompleted ==
  /\ selectedDocument = NoDocument \/ selectedDocument.processing_status = "completed"
  /\ ChatInputShown =>
       ChatDocument = selectedDocument.id /\ selectedDocument.processing_status = "completed"

\* A document is selected by handleUpload: it was completed when the upload was
\* answered, and no entry of the list was clicked (the poller has not ticked)
C11_Witness ==
  /\ ChatInputShown
  /\ selectedDocument.id \in 1..MaxDocs
  /\ \E p \in 1..Len(pollers) :
       pollers[p].doc = selectedDocument.id /\ pollers[p].ticks = 0

\* The clients close() has been called on: every client but the current one
ClosedClient(k) == k <= Len(clients) /\ k # wsClient

\* An event of socket s reaches a handler of the hook
DeliversEvent(s) ==
  \/ \E type \in MessageTypes : \E content \in Payloads(type) :
       SockMessage(s, type, content)
  \/ \E c \in BOOLEAN : SockClose(s, c)
  \/ SockFail(s)

\* C16: after close() the client never opens a new WebSocket and never
\* delivers another event to the hook, whatever wasClean is.
C16_ClosedClientIsSilent ==
  [][\A k \in 1..MaxClients :
       ClosedClient(k) =>
         /\ ~ReconnectTimer(k)
         /\ \A s \in 1..MaxSocks :
              (s <= Len(socks) /\ socks[s].client = k) => ~DeliversEvent(s)]_vars

\* C12: the session_id of a frame is absent or the id of the hook, which is the
\* one received last in a 'session' event on the current connection;
\* clearMessages and a document change leave no session id for the next frame.
C12_SessionOfConnection ==
  [][/\ Len(sent') > Len(sent) =>
          sent'[Len(sent')].session_id \in {NoSession, currentSessionId}
     /\ (ClearMessages \/ \E d \in Docs \cup {NoDoc} : SetDocument(d)) =>
          (currentSessionId' = NoSession /\ rendered'.currentSessionId = NoSession)
     /\ currentSessionId' \notin {currentSessionId, NoSession} =>
          \E s \in 1..MaxSocks :
            /\ s <= Len(socks)
            /\ socks[s].client = wsClient
            /\ SockMessage(s, "session", currentSessionId')]_vars

\* The extension of a file name as the claim has it: the text after the last
\* dot, without regard to case; none when the name has no dot
HasDot(str) == \E i \in 1..Len(str) : str[i] = "."
ExtensionOf(str) == IF HasDot(str) THEN ToLowerCase(SplitPop(str)) ELSE <<>>

\* The files C13 wants rejected
Unacceptable(file) ==
  \/ ExtensionOf(file.name) \notin supportedTypes
  \/ file.size > 50 * 1024 * 1024

\* C13: DocumentUpload rejects a file in handleFileUpload itself, before
\* onUpload and without a change of its upload state, when its extension is not
\* one of pdf, docx, doc, txt or its size is above 50 MB; every other file is
\* given to onUpload.
C13_UploadValidation ==
  [][\A f \in UploadFiles :
       HandleFileUpload(f) =>
         IF Unacceptable(f)
           THEN uploads' = uploads /\ uploadUI' = uploadUI
           ELSE [file |-> f, id |-> 0] \in uploads' /\ uploadUI'.isUploading]_vars

\* C14: a file of zero bytes is rejected in handleFileUpload itself: no upload
\* request is issued for it and no document is added for it.
C14_EmptyFileRejected ==
  [][/\ \A f \in UploadFiles :
          (f.size = 0 /\ HandleFileUpload(f)) =>
            (uploads' = uploads /\ uploadUI' = uploadUI)
     /\ \A u \in UploadRequests : u.file.size = 0 => ~HandleUpload(u)]_vars

\* C15: once deleteDocument(id) has succeeded the document is not in the list
\* and not selected, so that no chat connection is kept for it, in whatever
\* order selection and delete happened.
C15_DeletedIsGone ==
  [][\A r \in DeleteRequests :
       DeleteResponse(r) =>
         /\ \A i \in 1..Len(documents') : documents'[i].id # r.id
         /\ selectedDocument'.id # r.id
         /\ ChatDocument' # r.id]_vars

\* The ids of the two messages sendMessage added for the turn in flight
TurnMessageIds == {MessageId("user", currentMessageId[2]), currentMessageId}

\* C17: a turn the server refuses because the document is not Completed is
\* answered by an 'error' event (handleMessage treats every 'error' alike and
\* only shows its content), after which the transcript holds no message of
\* that turn, neither the user's nor the assistant's.
C17_RefusedTurnLeavesNothing ==
  [][(ErrorEvent /\ TurnInFlight) =>
       \A i \in 1..Len(View') : View'[i].id \notin TurnMessageIds]_vars

\* The workers that process document d
ProcessingWorkers(d) ==
  {w \in Workers : workers[w].doc = d /\ workers[w].state \in Stages}

\* C18: at most one worker processes a document at any time; a worker starts
\* processing only through the atomic transition Pending -> Processing, and a
\* claim succeeds exactly when the document is still Pending, so that of the
\* workers claiming one Pending document exactly one succeeds.
C18_OneWorkerPerDocument ==
  [][/\ \A d \in 1..MaxDocs : Cardinality(ProcessingWorkers(d)') <= 1
     /\ \A w \in Workers :
          /\ (workers[w].state \notin Stages /\ workers'[w].state \in Stages) =>
               /\ WorkerClaim(w)
               /\ srvDocs[workers[w].doc].status = "pending"
               /\ srvDocs'[workers[w].doc].status = "processing"
          /\ WorkerClaim(w) =>
               (workers'[w].state \in Stages <=>
                  srvDocs[workers[w].doc].status = "pending")]_vars

\* Two workers have taken the same Pending document; one has claimed it and the
\* claim of the other is still to come
C18_Witness ==
  \E w1, w2 \in Workers :
    /\ w1 # w2
    /\ workers[w1].state \in Stages
    /\ workers[w2].state = "claiming"
    /\ workers[w2].doc = workers[w1].doc

BatchCommitted(d) ==
  \E w \in Workers :
    /\ workers[w].doc = d
    /\ workers[w].state \in {"complete", "crashed"}
    /\ index[d] = UpsertAll(workers[w].chunks)

StatusEdges ==
  {<<"pending", "processing">>, <<"processing", "completed">>,
   <<"processing", "failed">>}

\* Every change of a status follows an edge, and a worker that is through
\* with its document leaves it Completed or Failed
StatusMovesForward ==
  /\ \A d \in 1..Len(srvDocs) :
       srvDocs'[d].status # srvDocs[d].status =>
         <<srvDocs[d].status, srvDocs'[d].status>> \in StatusEdges
  /\ \A w \in Workers :
       (workers[w].state \in Stages /\ workers'[w].state = "idle") =>
         srvDocs'[workers[w].doc].status \in Terminal

UncleanClose(k) ==
  \E s \in 1..Len(socks) :
    socks[s].client = k /\ (SockClose(s, FALSE) \/ SockFail(s))

\* C21: reconnectAttempts stays within 0..maxReconnectAttempts, it counts the
\* attempts made since the last successful open (an attempt adds one, an open
\* resets it to 0), and an unclean close at maxReconnectAttempts schedules no
\* further attempt.
C21_ReconnectionBounded ==
  [][\A k \in 1..Len(clients') :
       /\ clients'[k].reconnectAttempts \in 0..3
       /\ k <= Len(clients) =>
            /\ (\E s \in 1..Len(socks) : socks[s].client = k /\ SockOpen(s)) =>
                 clients'[k].reconnectAttempts = 0
            /\ Reconnect(k) =>
                 clients'[k].reconnectAttempts = clients[k].reconnectAttempts + 1
            /\ (UncleanClose(k) /\ clients[k].reconnectAttempts = 3) =>
                 clients'[k].timers = clients[k].timers
            /\ clients'[k].timers \in 0..1]_vars

\* The third attempt in a row has failed: the socket it opened is closed, the
\* counter is at its maximum and no timer is pending
C21_Witness ==
  \E k \in 1..Len(clients) :
    /\ clients[k].reconnectAttempts = maxReconnectAttempts
    /\ clients[k].timers = 0
    /\ Len(socks) = 4
    /\ socks[4].rs = "CLOSED"

\* C22: at most one message has isStreaming = true; such a message is the
\* assistant message with the id in currentMessageId, and isLoading is true
\* then; isLoading is true exactly when currentMessageId is not null.
C22_OneStreamingMessage ==
  LET Streaming == {i \in 1..Len(View) : View[i].isStreaming}
  IN /\ Cardinality(Streaming) <= 1
     /\ \A i \in Streaming :
          /\ View[i].role = "assistant"
          /\ View[i].id = currentMessageId
          /\ isLoading
     /\ isLoading <=> currentMessageId # NoId

\* C23: an event of a connection the hook has closed or replaced changes
\* neither isConnected nor the messages nor currentSessionId; and while the
\* current connection stays the current one, isConnected goes from true to
\* false only when that connection closes or errors.
C23_ClosedConnectionChangesNothing ==
  [][/\ \A s \in 1..MaxSocks :
          (s <= Len(socks) /\ ClosedClient(socks[s].client) /\ DeliversEvent(s)) =>
            /\ isConnected' = isConnected
            /\ View' = View
            /\ currentSessionId' = currentSessionId
     /\ (isConnected /\ ~isConnected' /\ wsClient # 0 /\ wsClient' = wsClient) =>
          \E s \in 1..Len(socks) :
            /\ socks[s].client = wsClient
            /\ (SockFail(s) \/ \E c \in BOOLEAN : SockClose(s, c))]_vars

\* C24: at most one WebSocket of the useWebSocket instance is open or
\* connecting at any time.
C24_OneLiveSocket ==
  Cardinality({s \in 1..Len(socks) : socks[s].rs \in {"CONNECTING", "OPEN"}}) <= 1

\* C25: an upload attempt returns the widget to idle, also when onUpload
\* resolves to null or throws: a widget that is not idle (isUploading, or a
\* phase or a progress shown) always has its request or a timer ahead of it,
\* it is never left blocked.
C25_UploadReturnsToIdle ==
  uploadUI # MountedUpload =>
    \/ /\ uploadUI.processingPhase = "upload"
       /\ \E u \in uploads : u.file.name = uploadUI.currentFileName
    \/ uploadUI.processingPhase \in {"processing", "complete"}

\* processingPhase stays or moves along one edge of the order of the phases
PhaseStep ==
  uploadUI'.processingPhase # uploadUI.processingPhase =>
    <<uploadUI.processingPhase, uploadUI'.processingPhase>> \in
      {<<NULL, "upload">>, <<"upload", "processing">>,
       <<"processing", "complete">>, <<"complete", NULL>>}

\* onUpload resolves to a document for the DocumentUpload that awaits it
UploadSucceeds == \E u \in AppUploads : HandleUpload(u) /\ AwaitedBy(u)

\* handleFileUpload starts an upload
UploadStarts == \E f \in Files : HandleFileUpload(f) /\ uploadUI'.isUploading

\* C26: for every successful upload processingPhase passes through upload,
\* processing, complete and null in this order, with no phase skipped and no
\* step back, and no upload starts before the widget is idle again.
C26_PhaseOrder ==
  [][/\ (UploadSucceeds \/ uploadUI.processingPhase \in {"processing", "complete"}) =>
          /\ PhaseStep
          /\ UploadSucceeds => uploadUI'.processingPhase = "processing"
     /\ UploadStarts => uploadUI = MountedUpload]_vars

\* C26 amended: as long as the DocumentUpload stays mounted (the upload tab
\* stays the active one) processingPhase moves only along null, upload,
\* processing, complete, null, a successful upload moves it to processing, and
\* an upload starts only in the idle widget.
C26_PhaseOrder_Amended ==
  [][/\ (activeTab = "upload" /\ activeTab' = "upload") =>
          /\ PhaseStep
          /\ UploadSucceeds => uploadUI'.processingPhase = "processing"
     /\ UploadStarts => uploadUI = MountedUpload]_vars

C26_Witness ==
  /\ activeTab = "upload"
  /\ uploadUI.processingPhase = "complete"
  /\ uploadUI.isUploading
  /\ Len(documents) = 1

\* C27: the widget reports phase 'complete' for a document only when the
\* processing_status of that document is 'completed', never while it is
\* pending or processing or after it has failed.
C27_ReadyMeansCompleted ==
  (uploadUI.isUploading /\ uploadUI.processingPhase = "complete") =>
    \A i \in 1..Len(documents) :
      documents[i].original_filename = uploadUI.currentFileName =>
        documents[i].processing_status = "completed"

\* The entries of the list with the id of document d
EntriesOf(d) == {i \in 1..Len(documents) : documents[i].id = d}

\* C28: from the time uploadDocument resolves for a document (it has started
\* the polling of it) until deleteDocument succeeds for it (the server has
\* deleted it and the request is over) the list has exactly one entry with
\* its id, in whatever order the responses of fetchDocuments and upload arrive.
C28_OneEntryPerDocument ==
  \A d \in 1..Len(srvDocs) :
    LET UploadResolved == \E p \in 1..Len(pollers) : pollers[p].doc = d
        DeleteSucceeded == srvDocs[d].status = "deleted" /\ \A r \in deletes : r.id # d
    IN (UploadResolved /\ ~DeleteSucceeded) => Cardinality(EntriesOf(d)) = 1

\* C29: a poll response for document X changes processing_status,
\* total_chunks and error_message of X to the values of the response and
\* nothing else: every other document, every other field, the order and the
\* length of the list stay; a response for a document that is not in the list
\* any more does not add it again.
C29_PollChangesOnlyItsDocument ==
  [][\A i \in 1..(MaxPolled * MaxInFlight) :
       StatusResponse(i) =>
         LET X == pollers[reqs[i].poller].doc
             status == reqs[i].resp
         IN /\ Len(documents') = Len(documents)
            /\ \A j \in 1..Len(documents) :
                 /\ documents'[j].id = documents[j].id
                 /\ documents'[j].original_filename = documents[j].original_filename
                 /\ documents[j].id # X => documents'[j] = documents[j]
                 /\ documents[j].id = X =>
                      /\ documents'[j].processing_status = status.status
                      /\ documents'[j].total_chunks = status.total_chunks
                      /\ documents'[j].error_message = status.error_message
            /\ EntriesOf(X) = {} => documents' = documents]_vars

C29_Witness ==
  /\ Len(documents) = 2
  /\ documents[1].processing_status = "completed"
  /\ documents[1].total_chunks = 3
  /\ documents[2].processing_status = "pending"
  /\ ~pollers[2].active

\* C30: a failed upload adds no document and starts no polling, and its null
\* result selects nothing and starts no phase of the widget; a failed delete
\* removes nothing and App keeps selectedDocument and activeTab.
C30_FailuresChangeNothing ==
  [][/\ \A u \in AppUploads :
          UploadFailed(u) =>
            /\ documents' = documents
            /\ pollers' = pollers
            /\ reqs' = reqs
            /\ selectedDocument' = selectedDocument
            /\ activeTab' = activeTab
            /\ uploadUI'.processingPhase \notin {"processing", "complete"}
     /\ \A r \in DeleteRequests :
          (r \in deletes /\ deletes' = deletes \ {r} /\ srvDocs' = srvDocs
             /\ ~DeleteResponse(r)) =>
            /\ documents' = documents
            /\ selectedDocument' = selectedDocument
            /\ activeTab' = activeTab]_vars

C30_Witness ==
  \E d \in 1..Len(srvDocs) :
    /\ srvDocs[d].status = "deleted"
    /\ deletes = {}
    /\ EntriesOf(d) # {}
    /\ selectedDocument.id = d

\* C31: onDocumentDelete(id) is called (a new delete request) only by a click on the delete button of
\* id made while deleteConfirm = id, and deleteConfirm is null after the call;
\* a click made while deleteConfirm is not the id deletes nothing and sets
\* deleteConfirm to the id; deleteConfirm becomes an id only by such a click
\* on that document (so a click on another document supersedes it), and a
\* timeout or the unmounting of the list cancels it.
C31_DeleteNeedsTwoClicks ==
  [][/\ \A r \in deletes' \ deletes :
          ~r.served =>
            /\ listUI.deleteConfirm = r.id
            /\ listUI'.deleteConfirm = NoDoc
            /\ \E i \in 1..Len(documents) : documents[i].id = r.id /\ DeleteClick(i)
     /\ \A i \in 1..Len(documents) :
          (DeleteClick(i) /\ listUI.deleteConfirm # documents[i].id) =>
            /\ deletes' = deletes
            /\ listUI'.deleteConfirm = documents[i].id
     /\ listUI'.deleteConfirm \notin {listUI.deleteConfirm, NoDoc} =>
          \E i \in 1..Len(documents) :
            documents[i].id = listUI'.deleteConfirm /\ DeleteClick(i)
     /\ (ConfirmTimeout \/ activeTab' # "documents") =>
          listUI'.deleteConfirm = NoDoc]_vars

\* The second click has called onDocumentDelete: the request is in flight,
\* deleteConfirm is null and the timer of the first click is still pending
C31_Witness ==
  /\ activeTab = "documents"
  /\ \E r \in deletes : ~r.served
  /\ listUI.deleteConfirm = NoDoc
  /\ listUI.timers > 0

====
